---- MODULE Spec2Model ----
(***************************************************************************)
(* Model of the two scripts of FedNoiseBilbao.                             *)
(*                                                                         *)
(*   src/sonometers_data.py  obtener_datos_sonometros_bilbao: the          *)
(*       paginated, retrying download of the measurements feed, and the    *)
(*       main() that drives it;                                            *)
(*   src/sonometers.py       the station exporter (GeoJSON to CSV) and     *)
(*       its main().                                                       *)
(*                                                                         *)
(* One run of one script is one behaviour.  The HTTP client and the        *)
(* service are the environment: every request draws its outcome            *)
(* nondeterministically.  A response body is a sequence of lines; a        *)
(* measurement row is <<"row", page, index>>, so rows of different pages   *)
(* and positions are distinguishable.                                      *)
(*                                                                         *)
(* Variables of the program: script, argv, pc, page, retry_count, success, *)
(* response, complete_data, result, exception, datos, written, reported.   *)
(* History variables (they record what happened, no action reads them):    *)
(* events, served, received, branch.                                       *)
(***************************************************************************)
EXTENDS Integers, Sequences, FiniteSets, TLC

VARIABLES
    script,         \* which script runs: "data" or "stations"
    argv,           \* sys.argv: <<script name>> \o positional arguments
    pc,             \* position of the run
    page,           \* sonometers_data.py:26
    retry_count,    \* sonometers_data.py:44
    success,        \* sonometers_data.py:45
    response,       \* the response of requests.get, sonometers_data.py:50
    complete_data,  \* the Result Table, sonometers_data.py:28
    result,         \* the value returned by the fetcher to main
    exception,      \* the exception that left the run, or NoException
    datos,          \* sonometers.py:75, what obtener_datos_sonometros returned
    written,        \* the files written, in order: [name, rows]
    reported,       \* the status codes printed as errors
    events,         \* history: requests issued and sleeps, in order
    served,         \* history: the outcome the client gave to each request
    received,       \* history: the parsed pages appended to the table
    branch          \* history: how the last response was treated

vars == <<script, argv, pc, page, retry_count, success, response,
          complete_data, result, exception, datos, written, reported,
          events, served, received, branch>>

fetchVars == <<page, retry_count, success, response, complete_data, result,
               events, served, received, branch>>

-----------------------------------------------------------------------------
(* Bounds of the model *)

\* The service has at most MaxPages full pages; any later page is short.
MaxPages == 2

\* items_per_page of the fetcher (sonometers_data.py:27 sets 1000), scaled
\* down: only "a page has fewer rows than items_per_page" is ever read.
ItemsPerPage == 3

\* The station feed has at most MaxFeatures features.
MaxFeatures == 2

-----------------------------------------------------------------------------
(* Program constants *)

\* a faulty variant of MaxRetries: one attempt too many
MaxRetriesOff == 5 + 1
\* max_retries
MaxRetries == 5

\* the unit of the linear backoff, wait_time = 5 * retry_count
BackoffUnit == 5

\* time.sleep(2) between pages
PacingDelay == 2

\* the only status the fetcher and the exporter accept
StatusOK == 200

DataDefaultFile == "bilbao_sonometers_data15.csv"
StationsDefaultFile == "bilbao_sonometers.csv"

NoException == "none"
NoResponse == [status |-> 0, decodable |-> TRUE, body |-> <<>>]
NoDatos == [truthy |-> FALSE, hasFeatures |-> FALSE, features |-> <<>>]

-----------------------------------------------------------------------------
(* The environment: outcomes of a request *)

\* status codes the service can answer with
Statuses == {200, 201, 404}

\* a faulty variant of CaughtErrors: Timeout is not caught
CaughtOnlyConnection == {"ConnectionError"}
\* line 52: the exceptions of requests.get that the fetcher catches
CaughtErrors == {"ConnectionError", "Timeout"}

\* the exceptions requests.get can raise
RequestErrors == {"ConnectionError", "Timeout", "TooManyRedirects"}

Blank == <<"blank", 0, 0>>
Header == <<"header", 0, 0>>
Row(p, i) == <<"row", p, i>>
\* a line with more fields than the lines before it
BadRow(p, i) == <<"bad", p, i>>

Rows(p, n) == [i \in 1..n |-> Row(p, i)]

\* Row counts the service can put on page p: a full page only while p <= MaxPages.
RowCounts(p) == IF p <= MaxPages THEN 0..ItemsPerPage ELSE 0..(ItemsPerPage - 1)

\* The body the service sends for page p: n data rows in a given shape.
Shapes == {"csv", "newline", "padded", "empty", "malformed", "undecodable"}

Body(p, n, shape) ==
    CASE shape = "csv"       -> <<Header>> \o Rows(p, n)
      [] shape = "newline"   -> <<Header>> \o Rows(p, n) \o <<Blank>>
      [] shape = "padded"    -> <<Blank, Header>> \o Rows(p, n) \o <<Blank, Blank>>
      [] shape = "empty"     -> <<>>
      [] shape = "malformed" -> <<Header>> \o Rows(p, n) \o <<BadRow(p, n + 1)>>
      [] shape = "undecodable" -> <<Header>> \o Rows(p, n)

\* "empty" carries no row, and the rows of bytes that cannot be decoded do
\* not count; a malformed line follows at least one good row (pandas reads a
\* longer first data line as an index column, not an error).
ShapeRows(p, shape) ==
    CASE shape \in {"empty", "undecodable"} -> {0}
      [] shape = "malformed"                -> RowCounts(p) \ {0}
      [] OTHER                              -> RowCounts(p)

\* The bodies drawn for a status: every shape with 200; with another status
\* the body is never read, a CSV body and no body stand for all of them.
ShapesFor(status) == IF status = 200 THEN Shapes ELSE {"csv", "empty"}

-----------------------------------------------------------------------------
(* Pure functions of the fetcher *)

RECURSIVE LStrip(_)
LStrip(lines) ==
    IF lines # <<>> /\ Head(lines) = Blank THEN LStrip(Tail(lines)) ELSE lines

RECURSIVE RStrip(_)
RStrip(lines) ==
    IF lines # <<>> /\ lines[Len(lines)] = Blank
    THEN RStrip(SubSeq(lines, 1, Len(lines) - 1))
    ELSE lines

\* content.strip()
Strip(lines) == RStrip(LStrip(lines))

\* len(content.strip().split('\n')): "".split('\n') is [''], of length 1
SplitLen(lines) == IF Strip(lines) = <<>> THEN 1 ELSE Len(Strip(lines))

\* line 68: the content is empty or only has the header
NoMoreData(lines) == SplitLen(lines) <= 1

NotBlank(line) == line # Blank

\* pd.read_csv keeps the lines that are not blank; the first is the header
DataLines(lines) ==
    IF SelectSeq(lines, NotBlank) = <<>> THEN <<>> ELSE Tail(SelectSeq(lines, NotBlank))

\* pd.read_csv raises EmptyDataError when there is no line to take the columns
\* from, and ParserError on a line with too many fields
ParseFails(lines) ==
    \/ SelectSeq(lines, NotBlank) = <<>>
    \/ \E i \in DOMAIN DataLines(lines) : DataLines(lines)[i][1] = "bad"

\* the data frame of pd.read_csv(StringIO(content), sep=';')
ReadCsv(lines) == DataLines(lines)

\* df_page.empty
IsEmpty(df) == Len(df) = 0

\* a faulty variant of Concat: the page is put in front
ConcatFront(table, df) == df \o table
\* pd.concat([complete_data, df_page], ignore_index=True)
Concat(table, df) == table \o df

\* a faulty variant of LastPage: off by one
LastPageOff(df) == Len(df) < ItemsPerPage - 1
\* line 82: len(df_page) < items_per_page
LastPage(df) == Len(df) < ItemsPerPage

\* a faulty variant of WaitTime: a constant wait
WaitTimeFlat(rc) == BackoffUnit
\* line 55: wait_time = 5 * retry_count
WaitTime(rc) == BackoffUnit * rc

\* a faulty variant of NextRetryCount: the failure is not counted
NextRetryCountStuck(rc) == rc
\* line 53: retry_count += 1
NextRetryCount(rc) == rc + 1

\* a variant of Accepted that takes every 2xx status
AcceptAny2xx(status) == status \in 200..299
\* line 65: response.status_code == 200
Accepted(status) == status = StatusOK

\* a faulty variant of ShouldPersist: an empty table is written too
PersistAlways(table) == TRUE
\* line 92: not complete_data.empty
ShouldPersist(table) == ~IsEmpty(table)

\* line 47: the condition of the retry loop
LoopCond(rc, s) == rc < MaxRetries /\ ~s

\* line 54: another attempt is left
RetryAgain(rc) == rc < MaxRetries

\* lines 62-63: if not success: break
AfterRetryLoop(s) == IF ~s THEN "after_loop" ELSE "process"

\* line 86: page += 1
NextPage(p) == p + 1

\* main, lines 161-170: the weekday column is added and columns are renamed
Processed(table) == [i \in DOMAIN table |-> <<"final", table[i][2], table[i][3]>>]

\* main, line 150: the output file name is a literal, sys.argv is never read
DataFileName(av) == DataDefaultFile

Event(kind, p, n) == [kind |-> kind, page |-> p, n |-> n]
\* what the client gave to a request: "error" (requests.get raised) or
\* "response", with the status and the number of data rows of the body
Outcome(p, what, status, n) ==
    [page |-> p, outcome |-> what, status |-> status, rows |-> n]

-----------------------------------------------------------------------------
(* The station feed (sonometers.py) *)

\* A feature of the GeoJSON: its geometry has a coordinate pair ("point"),
\* is missing ("nogeom") or has fewer than two coordinates ("short"); "extra"
\* is a feature with a property the first feature does not have.
FeatureKinds == {"point", "nogeom", "short", "extra"}

RECURSIVE SeqsUpTo(_, _)
SeqsUpTo(S, n) ==
    IF n = 0 THEN {<<>>}
    ELSE SeqsUpTo(S, n - 1) \cup
         {Append(q, x) : q \in {r \in SeqsUpTo(S, n - 1) : Len(r) = n - 1}, x \in S}

\* what response.json() can give: a dict with a "features" list, a dict
\* without one, or the empty dict
JsonValues ==
    {[truthy |-> TRUE, hasFeatures |-> TRUE, features |-> f] :
        f \in SeqsUpTo(FeatureKinds, MaxFeatures)}
    \cup {[truthy |-> TRUE, hasFeatures |-> FALSE, features |-> <<>>]}
    \cup {NoDatos}

\* lines 53-60: the row of a feature, with its coordinates when it has two
StationRow(features, i) ==
    <<"station", i, IF features[i] = "point" THEN 1 ELSE 0>>

\* csv.DictWriter.writerow raises ValueError on a key that is no field name;
\* the fields are the first feature's properties (line 39)
RowFails(features, i) == i > 1 /\ features[i] = "extra" /\ features[1] # "extra"

\* lines 45-62: the header, then the rows up to the first one that fails
RECURSIVE WriteRows(_, _)
WriteRows(features, i) ==
    IF i > Len(features) \/ RowFails(features, i) THEN <<>>
    ELSE <<StationRow(features, i)>> \o WriteRows(features, i + 1)

\* lines 35-68: what the file holds when guardar_en_csv closes it
CsvContent(features) ==
    IF Len(features) > 0 THEN <<Header>> \o WriteRows(features, 1) ELSE <<>>

\* a faulty variant of StationsFileName: the argument is ignored
StationsFileNameFixed(av) == StationsDefaultFile
\* sonometers.py main, lines 81-83
StationsFileName(av) == IF Len(av) > 1 THEN av[2] ELSE StationsDefaultFile

-----------------------------------------------------------------------------
(* Initial state *)

ScriptName == [data |-> "sonometers_data.py", stations |-> "sonometers.py"]
Positionals == {<<>>, <<"out.csv">>}

Init ==
    /\ script \in {"data", "stations"}
    /\ argv \in {<<ScriptName[script]>> \o a : a \in Positionals}
    /\ pc = IF script = "data" THEN "loop" ELSE "s_fetch"
    /\ page = 1
    /\ retry_count = 0
    /\ success = FALSE
    /\ response = NoResponse
    /\ complete_data = <<>>
    /\ result = <<>>
    /\ exception = NoException
    /\ datos = NoDatos
    /\ written = <<>>
    /\ reported = <<>>
    /\ events = <<>>
    /\ served = <<>>
    /\ received = <<>>
    /\ branch = "none"

-----------------------------------------------------------------------------
(* obtener_datos_sonometros_bilbao, sonometers_data.py:10-98 *)

\* lines 30-45: the head of the page loop
LoopHead ==
    /\ pc = "loop"
    /\ retry_count' = 0
    /\ success' = FALSE
    /\ pc' = "attempt"
    /\ UNCHANGED <<script, argv, page, response, complete_data, result, exception,
                   datos, written, reported, events, served, received, branch>>

\* lines 48-60: requests.get raises
AttemptError ==
    /\ pc = "attempt"
    /\ LoopCond(retry_count, success)
    /\ \E err \in RequestErrors :
        LET request == Event("request", page, ItemsPerPage)
            rc == NextRetryCount(retry_count)
        IN  /\ served' = Append(served, Outcome(page, "error", 0, 0))
            /\ IF err \in CaughtErrors
               THEN /\ retry_count' = rc
                    /\ exception' = exception
                    /\ IF RetryAgain(rc)
                       THEN /\ events' = events \o
                                    <<request, Event("backoff", page, WaitTime(rc))>>
                            /\ pc' = IF LoopCond(rc, success) THEN "attempt"
                                     ELSE AfterRetryLoop(success)
                            /\ result' = result
                       ELSE /\ events' = Append(events, request)
                            /\ result' = complete_data
                            /\ pc' = "returned"
               ELSE /\ events' = Append(events, request)
                    /\ exception' = err
                    /\ pc' = "raised"
                    /\ UNCHANGED <<retry_count, result>>
    /\ UNCHANGED <<script, argv, page, success, response, complete_data, datos,
                   written, reported, received, branch>>

\* lines 48-51: requests.get returns a response
AttemptResponds ==
    /\ pc = "attempt"
    /\ LoopCond(retry_count, success)
    /\ \E status \in Statuses :
        \E shape \in ShapesFor(status) : \E n \in ShapeRows(page, shape) :
            /\ response' = [status |-> status, decodable |-> shape # "undecodable",
                            body |-> Body(page, n, shape)]
            /\ served' = Append(served, Outcome(page, "response", status, n))
    /\ events' = Append(events, Event("request", page, ItemsPerPage))
    /\ success' = TRUE
    /\ pc' = IF LoopCond(retry_count, TRUE) THEN "attempt" ELSE AfterRetryLoop(TRUE)
    /\ UNCHANGED <<script, argv, page, retry_count, complete_data, result, exception,
                   datos, written, reported, received, branch>>

\* lines 88-90: a status that is not accepted
ProcessRejected ==
    /\ pc = "process"
    /\ ~Accepted(response.status)
    /\ reported' = Append(reported, response.status)
    /\ branch' = "error"
    /\ pc' = "after_loop"
    /\ UNCHANGED <<script, argv, page, retry_count, success, response, complete_data,
                   result, exception, datos, written, events, served, received>>

\* line 66: response.content.decode('utf-8') raises
ProcessUndecodable ==
    /\ pc = "process"
    /\ Accepted(response.status)
    /\ ~response.decodable
    /\ branch' = "data"
    /\ exception' = "UnicodeDecodeError"
    /\ pc' = "raised"
    /\ UNCHANGED <<script, argv, page, retry_count, success, response, complete_data,
                   result, datos, written, reported, events, served, received>>

\* lines 67-70: the content is empty or only has the header
ProcessNoData ==
    /\ pc = "process"
    /\ Accepted(response.status)
    /\ response.decodable
    /\ NoMoreData(response.body)
    /\ branch' = "data"
    /\ pc' = "after_loop"
    /\ UNCHANGED <<script, argv, page, retry_count, success, response, complete_data,
                   result, exception, datos, written, reported, events, served,
                   received>>

\* line 73: pd.read_csv raises
ProcessParseError ==
    /\ pc = "process"
    /\ Accepted(response.status)
    /\ response.decodable
    /\ ~NoMoreData(response.body)
    /\ ParseFails(response.body)
    /\ branch' = "data"
    /\ exception' = "ParserError"
    /\ pc' = "raised"
    /\ UNCHANGED <<script, argv, page, retry_count, success, response, complete_data,
                   result, datos, written, reported, events, served, received>>

\* lines 73-87: the page is parsed and appended
ProcessPage ==
    /\ pc = "process"
    /\ Accepted(response.status)
    /\ response.decodable
    /\ ~NoMoreData(response.body)
    /\ ~ParseFails(response.body)
    /\ branch' = "data"
    /\ LET df_page == ReadCsv(response.body)
       IN  IF IsEmpty(df_page)
           THEN /\ pc' = "after_loop"
                /\ UNCHANGED <<page, complete_data, events, received>>
           ELSE /\ complete_data' = Concat(complete_data, df_page)
                /\ received' = Append(received, df_page)
                /\ IF LastPage(df_page)
                   THEN /\ pc' = "after_loop"
                        /\ UNCHANGED <<page, events>>
                   ELSE /\ page' = NextPage(page)
                        /\ events' = Append(events, Event("pacing", page, PacingDelay))
                        /\ pc' = "loop"
    /\ UNCHANGED <<script, argv, retry_count, success, response, result, exception,
                   datos, written, reported, served>>

\* lines 92-98: after the loop, the table is saved when it has rows
Finish ==
    /\ pc = "after_loop"
    /\ written' = IF ShouldPersist(complete_data)
                  THEN Append(written, [name |-> DataFileName(argv),
                                        rows |-> complete_data])
                  ELSE written
    /\ result' = complete_data
    /\ pc' = "returned"
    /\ UNCHANGED <<script, argv, page, retry_count, success, response, complete_data,
                   exception, datos, reported, events, served, received, branch>>

\* sonometers_data.py main, lines 155-176
DataMain ==
    /\ pc = "returned"
    /\ written' = IF ~IsEmpty(result)
                  THEN Append(written, [name |-> DataFileName(argv),
                                        rows |-> Processed(result)])
                  ELSE written
    /\ pc' = "done"
    /\ UNCHANGED <<script, argv, exception, datos, reported>>
    /\ UNCHANGED fetchVars

-----------------------------------------------------------------------------
(* sonometers.py *)

\* obtener_datos_sonometros, lines 7-26: every failure gives None
StationsFetch ==
    /\ pc = "s_fetch"
    /\ \/ /\ datos' = NoDatos              \* requests.get or response.json() raises
          /\ reported' = reported
       \/ \E status \in Statuses :
            /\ status # StatusOK
            /\ datos' = NoDatos
            /\ reported' = Append(reported, status)
       \/ /\ datos' \in JsonValues
          /\ reported' = reported
    /\ pc' = "s_main"
    /\ UNCHANGED <<script, argv, exception, written>>
    /\ UNCHANGED fetchVars

\* main, lines 73-87, with guardar_en_csv, lines 28-71
StationsMain ==
    /\ pc = "s_main"
    /\ written' = IF datos.truthy /\ datos.hasFeatures
                  THEN Append(written, [name |-> StationsFileName(argv),
                                        rows |-> CsvContent(datos.features)])
                  ELSE written
    /\ pc' = "done"
    /\ UNCHANGED <<script, argv, exception, datos, reported>>
    /\ UNCHANGED fetchVars

-----------------------------------------------------------------------------
(* Specifications *)

Next ==
    \/ LoopHead
    \/ AttemptError
    \/ AttemptResponds
    \/ ProcessRejected
    \/ ProcessUndecodable
    \/ ProcessNoData
    \/ ProcessParseError
    \/ ProcessPage
    \/ Finish
    \/ DataMain
    \/ StationsFetch
    \/ StationsMain

Spec == Init /\ [][Next]_vars

\* The run is sequential and nothing cancels it: a step that can be taken is taken.
FairSpec == Spec /\ WF_vars(Next)

-----------------------------------------------------------------------------
(* Reading the history *)

IsRequest(e) == e.kind = "request"
IsResponse(o) == o.outcome = "response"

\* the requests issued, in order
Requests == SelectSeq(events, IsRequest)

\* the responses the service gave, in order
Responses == SelectSeq(served, IsResponse)

LastServed == served[Len(served)]
LastEvent == events[Len(events)]

\* the number of requests issued for page p
AttemptsFor(p) ==
    Cardinality({i \in DOMAIN events : IsRequest(events[i]) /\ events[i].page = p})

\* the number of requests for page p on which requests.get raised
ErrorsFor(p) ==
    Cardinality({i \in DOMAIN served : served[i].page = p /\ ~IsResponse(served[i])})

\* page p got a response
Answered(p) == \E i \in DOMAIN served : served[i].page = p /\ IsResponse(served[i])

\* the requests and backoff sleeps of page p, in order
PageTrail(p) ==
    LET Mine(e) == e.page = p /\ e.kind \in {"request", "backoff"}
    IN  SelectSeq(events, Mine)

RECURSIVE ConcatAll(_)
ConcatAll(pages) ==
    IF pages = <<>> THEN <<>> ELSE Head(pages) \o ConcatAll(Tail(pages))

RECURSIVE SumRows(_)
SumRows(rs) == IF rs = <<>> THEN 0 ELSE Head(rs).rows + SumRows(Tail(rs))

\* the last outcome is a response and the fetcher has dealt with it
ResponseHandled == served # <<>> /\ IsResponse(LastServed) /\ pc # "process"

Ended == pc \in {"returned", "done"}

-----------------------------------------------------------------------------
(* C1 *)

\* the service answered pages 1..m-1 with a full page each and page m with a
\* short page of at least one row, every one with status 200
FullThenShort ==
    LET rs == Responses
    IN  /\ rs # <<>>
        /\ \A i \in DOMAIN rs :
            /\ rs[i].page = i
            /\ rs[i].status = 200
            /\ IF i < Len(rs)
               THEN rs[i].rows = ItemsPerPage
               ELSE rs[i].rows \in 1..(ItemsPerPage - 1)

\* C1: when the service answers pages 1..m-1 with exactly ItemsPerPage rows
\* and page m with fewer (at least one), the returned table has as many rows
\* as pages 1..m together, and no page beyond m is ever requested.
C1_ShortPageEndsFetch ==
    (Ended /\ FullThenShort) =>
        /\ Len(result) = SumRows(Responses)
        /\ \A i \in DOMAIN events : events[i].page <= Len(Responses)

C1_Witness ==
    /\ pc = "returned"
    /\ FullThenShort
    /\ Len(Responses) = MaxPages + 1
    /\ Len(result) = MaxPages * ItemsPerPage + 1

-----------------------------------------------------------------------------
(* C2 *)

\* request, sleep 5, request, sleep 10, ..., request: k sleeps, k + 1 requests
ExpectedTrail(p, k) ==
    [j \in 1..(2 * k + 1) |->
        IF j % 2 = 1 THEN [kind |-> "request", page |-> p, n |-> ItemsPerPage]
        ELSE [kind |-> "backoff", page |-> p, n |-> 5 * (j \div 2)]]

\* C2: a page that fails k < 5 times and then gets its response was requested
\* k + 1 times, with a sleep of 5 * i seconds after the i-th failure, and the
\* response is processed: the fetch has not ended on that page's failures.
C2_RetryThenSuccess ==
    (Answered(page) /\ ErrorsFor(page) < 5) =>
        /\ AttemptsFor(page) = ErrorsFor(page) + 1
        /\ PageTrail(page) = ExpectedTrail(page, ErrorsFor(page))
        /\ IsResponse(LastServed)
        /\ pc \in {"process", "after_loop", "returned", "done", "raised"}
        /\ pc \in {"after_loop", "returned", "done", "raised"} => branch # "none"

C2_Witness ==
    /\ pc = "process"
    /\ page = 2
    /\ ErrorsFor(2) = 4
    /\ Answered(2)

-----------------------------------------------------------------------------
(* C3 *)

\* the run has returned and the last request ended in an error
Exhausted == Ended /\ served # <<>> /\ ~IsResponse(LastServed)

\* C3: when every attempt for page p fails with a connection error or a
\* timeout, the fetcher returns after exactly 5 attempts for p, without an
\* exception, the rows of pages 1..p-1, and the 5th request is its last.
C3_RetryExhaustion ==
    Exhausted =>
        /\ AttemptsFor(page) = 5
        /\ ErrorsFor(page) = 5
        /\ exception = NoException
        /\ LastEvent = [kind |-> "request", page |-> page, n |-> ItemsPerPage]
        /\ Len(received) = page - 1
        /\ result = ConcatAll([i \in 1..(page - 1) |-> Rows(i, ItemsPerPage)])

C3_Witness ==
    /\ Exhausted
    /\ page = 2
    /\ result = Rows(1, ItemsPerPage)

-----------------------------------------------------------------------------
(* C4 *)

\* C4: whenever the fetcher has returned, a non-empty table has been written
\* to the output file exactly once, in full, and an empty one not at all.
C4_ReturnedTableIsPersisted ==
    pc = "returned" =>
        IF result # <<>>
        THEN written = <<[name |-> DataDefaultFile, rows |-> result]>>
        ELSE written = <<>>

-----------------------------------------------------------------------------
(* C5 *)

\* no row of page p is in the table
NothingFrom(p, table) == \A i \in DOMAIN table : table[i][2] # p

\* C5 as stated: a response is treated as a data page exactly when its
\* status is any 2xx code.
C5_Any2xxIsParsed ==
    ResponseHandled => (branch = "data" <=> LastServed.status \in 200..299)

\* C5: a response is treated as a data page exactly when its status is 200;
\* for every other status (2xx codes other than 200 included) the status is
\* reported, the loop stops with nothing of that response appended, and the
\* rows of the earlier pages are what the fetcher returns.
C5_Only200IsParsed ==
    ResponseHandled =>
        /\ branch = "data" <=> LastServed.status = 200
        /\ LastServed.status # 200 =>
            /\ reported = <<LastServed.status>>
            /\ pc \in {"after_loop", "returned", "done"}
            /\ NothingFrom(page, complete_data)
            /\ complete_data = ConcatAll([i \in 1..(page - 1) |-> Rows(i, ItemsPerPage)])
            /\ Ended => result = complete_data

C5_Witness ==
    /\ ResponseHandled
    /\ LastServed.status = 201
    /\ page = 2
    /\ pc = "returned"
    /\ result = Rows(1, ItemsPerPage)

-----------------------------------------------------------------------------
(* C6 *)

\* the body of the last response has a line read_csv cannot take
BadLine == \E i \in DOMAIN response.body : response.body[i][1] = "bad"

\* C6 as stated: no exception ever leaves the fetcher.
C6_NeverRaises == exception = NoException /\ pc # "raised"

\* C6: connection errors, timeouts, every status code and every well-formed
\* body (empty, header-only, short, full) end in the return of the rows
\* accumulated so far; an exception leaves the fetcher exactly when
\* requests.get fails in another way or a response with status 200 has a body
\* that cannot be decoded or parsed.
C6_RaisesOnlyOnMalformedOrOtherFailure ==
    /\ pc = "raised" <=> exception # NoException
    /\ exception # NoException =>
        \/ /\ exception \in RequestErrors \ {"ConnectionError", "Timeout"}
           /\ ~IsResponse(LastServed)
        \/ /\ exception = "ParserError"
           /\ IsResponse(LastServed) /\ LastServed.status = 200
           /\ response.decodable /\ BadLine
        \/ /\ exception = "UnicodeDecodeError"
           /\ IsResponse(LastServed) /\ LastServed.status = 200
           /\ ~response.decodable
    /\ (ResponseHandled /\ LastServed.status = 200 /\ (BadLine \/ ~response.decodable))
            => pc = "raised"
    /\ Ended => result = complete_data /\ complete_data = ConcatAll(received)

C6_Witness ==
    /\ pc = "raised"
    /\ exception = "ParserError"
    /\ page = 2
    /\ complete_data = Rows(1, ItemsPerPage)

-----------------------------------------------------------------------------
(* C7 *)

\* the last response is a 200 whose body has no data row
NoRowsServed ==
    /\ ResponseHandled
    /\ LastServed.status = 200
    /\ response.decodable
    /\ LastServed.rows = 0

\* C7: on a body that is empty, header-only or without data rows the loop
\* stops, the table keeps the rows of the earlier pages only, the request of
\* that page is the last one; on page 1 the fetcher returns the empty table
\* and no file is written.
C7_NoDataStops ==
    NoRowsServed =>
        /\ pc \in {"after_loop", "returned", "done"}
        /\ complete_data = ConcatAll([i \in 1..(page - 1) |-> Rows(i, ItemsPerPage)])
        /\ Len(received) = page - 1
        /\ LastEvent.kind = "request" /\ LastEvent.page = page
        /\ (page = 1 /\ Ended) => (result = <<>> /\ written = <<>>)

C7_Witness ==
    /\ NoRowsServed
    /\ page = 1
    /\ pc = "returned"
    /\ response.body = <<Header>>

-----------------------------------------------------------------------------
(* C8 *)

PagesRequested == {events[i].page : i \in {j \in DOMAIN events : IsRequest(events[j])}}

RequestsBounded ==
    /\ \A p \in PagesRequested : AttemptsFor(p) <= 5
    /\ Len(Requests) <= Cardinality(PagesRequested) * 5
    /\ pc = "attempt" => retry_count = ErrorsFor(page)
    /\ pc = "loop" => AttemptsFor(page) = 0

Terminated == pc \in {"done", "raised"}

\* C8: with finitely many full pages every run ends, no page is requested
\* more than 5 times, the requests are at most 5 per page requested, and the
\* attempt counter of a page counts that page's failures only.
C8_TerminatesWithBoundedRequests == <>Terminated /\ []RequestsBounded

C8_Witness ==
    /\ Terminated
    /\ Len(Requests) = 5 * (MaxPages + 1)

-----------------------------------------------------------------------------
(* C9 *)

\* the pages requested: 1 first, then the same page again or the next one
AscendingPages ==
    LET rq == Requests
    IN  /\ rq # <<>> => rq[1].page = 1
        /\ \A i \in 1..(Len(rq) - 1) :
            rq[i + 1].page \in {rq[i].page, rq[i].page + 1}
        /\ rq # <<>> => rq[Len(rq)].page \in {page - 1, page}

\* the i-th page appended is page i as the service sent it
PagesInOrder ==
    LET rs == Responses
    IN  /\ Len(received) <= Len(rs)
        /\ \A i \in DOMAIN received :
            /\ rs[i].page = i
            /\ received[i] = Rows(i, rs[i].rows)

TableIsConcatenation ==
    /\ complete_data = ConcatAll(received)
    /\ pc \in {"loop", "attempt", "process"} => Len(received) = page - 1
    /\ Len(received) \in {page - 1, page}

\* a step leaves the table alone or appends one whole page at its end
WholePageAppend ==
    \/ complete_data' = complete_data
    \/ \E n \in 1..ItemsPerPage :
        complete_data' = complete_data \o Rows(page, n)

\* C9: pages are requested in ascending consecutive order from 1; while page
\* p is being fetched the table is the concatenation, in page order and with
\* the rows of each page in the order sent, of pages 1..p-1 (and of page p
\* too once a last page p has been appended); every change to the table
\* appends one whole page at its end.
C9_TableIsPagesInOrder ==
    /\ [](AscendingPages /\ PagesInOrder /\ TableIsConcatenation)
    /\ [][WholePageAppend]_vars

C9_Witness ==
    /\ pc = "returned"
    /\ Len(received) = MaxPages + 1
    /\ result = Rows(1, ItemsPerPage) \o Rows(2, ItemsPerPage) \o Rows(3, 1)

-----------------------------------------------------------------------------
(* C10 *)

DefaultFile == [data |-> DataDefaultFile, stations |-> StationsDefaultFile]

\* C10 as stated: each script writes under its argument when it has one and
\* under its default name otherwise.
C10_ArgumentNamesOutput ==
    \A i \in DOMAIN written :
        written[i].name = IF Len(argv) > 1 THEN argv[2] ELSE DefaultFile[script]

\* C10: the station exporter writes under its argument when it has one and
\* under bilbao_sonometers.csv otherwise; the measurements fetcher reads no
\* argument and always writes under bilbao_sonometers_data15.csv.
C10_OnlyExporterTakesArgument ==
    \A i \in DOMAIN written :
        written[i].name =
            IF script = "stations"
            THEN (IF Len(argv) > 1 THEN argv[2] ELSE "bilbao_sonometers.csv")
            ELSE "bilbao_sonometers_data15.csv"

C10_Witness ==
    /\ pc = "done"
    /\ script = "data"
    /\ argv = <<"sonometers_data.py", "out.csv">>
    /\ Len(written) = 2

====
